---- MODULE Spec2Model ----
(***************************************************************************)
(* Order / payment reconciliation core of printbox3d-backend.              *)
(*                                                                         *)
(* The ledger (Order, OrderItem, Payment, Coupon, Product rows) is shared  *)
(* by request workers.  Django runs every ORM call in autocommit mode (no  *)
(* transaction.atomic, no ATOMIC_REQUESTS), so each ORM call of a handler  *)
(* is one atomic step and the steps of concurrent requests interleave.     *)
(* Consecutive reads of a handler are folded into the step of its last     *)
(* read; every write is a step of its own.                                 *)
(***************************************************************************)
EXTENDS Integers, Sequences, FiniteSets, TLC

\* ------------------------------------------------------------------ bounds
MaxRequests == 2    \* reconciliation requests that reach an order
MaxItems == 2       \* lines of a submitted cart

Workers == {"w1", "w2"}
FirstWorker == "w1"

\* ------------------------------------------------------------ value spaces
OrderIds == {1, 2}                  \* primary keys of the Order rows ever inserted
NoneId == 0                         \* razorpay_order_id IS NULL
NonePay == ""                       \* razorpay_payment_id IS NULL
GatewayOrderId(o) == 100 + o        \* the id the gateway issues for receipt o
GatewayIds == {GatewayOrderId(o) : o \in OrderIds}
PaymentIds == {"pay_1", "pay_2"}

Products == {"A", "B"}
\* cart lines a client may send; "X" names no Product row
CartLines == {[product_id |-> "A", quantity |-> 2],
              [product_id |-> "A", quantity |-> 3],
              [product_id |-> "A", quantity |-> 0],
              [product_id |-> "B", quantity |-> 1],
              [product_id |-> "X", quantity |-> 1]}
CartInputs == UNION {[1..n -> CartLines] : n \in 0..MaxItems}

CouponCodes == {"SAVE10"}
CouponCodeInputs == {"", " save10", "BOGUS"}

PaySecret == "k_pay"
HookSecret == "k_hook"
ForgedSecret == "k_forged"

VARIABLES
    settings,      \* RAZORPAY_KEY_ID, RAZORPAY_KEY_SECRET, RAZORPAY_WEBHOOK_SECRET
    products,      \* Product rows
    coupons,       \* Coupon rows
    orders,        \* Order rows, by order id
    orderItems,    \* OrderItem rows of each order, in creation order
    payments,      \* Payment row of each order (one-to-one)
    intents,       \* payment intents held by the gateway
    mail,          \* confirmation e-mail threads of each order
    nextOrder,     \* next unused order id
    pc,            \* position of each request worker in its handler
    loc,           \* local variables of each request worker
    resp,          \* the response the latest step returned, if it returned one
    handled        \* reconciliation requests that have reached an order

vars == <<settings, products, coupons, orders, orderItems, payments, intents,
          mail, nextOrder, pc, loc, resp, handled>>

ledger == <<products, coupons, orders, orderItems, payments>>

\* --------------------------------------------------------------- rows
NoRow == [exists |-> FALSE, status |-> "", payment_status |-> "",
          total_amount |-> 0, discount_amount |-> 0, coupon_code |-> "",
          razorpay_order_id |-> NoneId, razorpay_payment_id |-> NonePay]

NoPayment == [exists |-> FALSE, status |-> "", razorpay_order_id |-> NoneId,
              razorpay_payment_id |-> NonePay, amount |-> 0]

NoLoc == [order |-> 0, items |-> <<>>, total_amount |-> 0, discount_amount |-> 0,
          applied_coupon |-> "", times_used |-> 0, rz_order_id |-> NoneId,
          razorpay_payment_id |-> NonePay, event |-> "", snap |-> NoRow,
          paysnap |-> NoPayment]

NoResp == [view |-> "", code |-> 0, error |-> "", product |-> "", order |-> 0,
           status |-> ""]

Response(view, code, error) ==
    [NoResp EXCEPT !.view = view, !.code = code, !.error = error]

\* ------------------------------------------------------------ pure helpers
RECURSIVE SumSeq(_)
SumSeq(s) == IF s = <<>> THEN 0 ELSE Head(s) + SumSeq(Tail(s))

Min(a, b) == IF a < b THEN a ELSE b
Max(a, b) == IF a > b THEN a ELSE b

\* data.get('coupon_code', '').strip().upper()
StripUpper(code) ==
    CASE code = " save10" -> "SAVE10"
      [] OTHER -> code

\* hmac.new(key, message, sha256).hexdigest(): a digest names its key and message
Hmac(key, message) == [key |-> key, message |-> message]

\* ------------------------------------------------------------------- Init
\* Product A: Rs 64.10, two in stock.  Product B is not available.
\* Coupon SAVE10: 10 percent, at most Rs 50.00, orders from Rs 200.00, one use.
Catalogue ==
    [p \in Products |->
        IF p = "A"
        THEN [price |-> 6410, stock_quantity |-> 2, is_available |-> TRUE]
        ELSE [price |-> 20000, stock_quantity |-> 1, is_available |-> FALSE]]

\* max_uses is -1 for a coupon without a usage cap (NULL)
CouponTable ==
    [c \in CouponCodes |->
        [is_active |-> TRUE, expired |-> FALSE, discount_type |-> "PERCENT",
         discount_value |-> 10, max_discount_amount |-> 5000,
         min_order_amount |-> 20000, max_uses |-> 1, times_used |-> 0]]

\* the same coupon with a cap of two uses
CouponTableTwoUses ==
    [c \in CouponCodes |-> [CouponTable[c] EXCEPT !.max_uses = 2]]

\* the state after deployment, with one of these coupon tables
Start(tables) ==
    /\ settings \in [RAZORPAY_KEY_ID : {"", "rzp_key"},
                     RAZORPAY_KEY_SECRET : {"", PaySecret},
                     RAZORPAY_WEBHOOK_SECRET : {"", HookSecret}]
    /\ products = Catalogue
    /\ coupons \in tables
    /\ orders = [o \in OrderIds |-> NoRow]
    /\ orderItems = [o \in OrderIds |-> <<>>]
    /\ payments = [o \in OrderIds |-> NoPayment]
    /\ intents = {}
    /\ mail = [o \in OrderIds |-> [dispatched |-> 0, sent |-> 0, failed |-> 0]]
    /\ nextOrder = 1
    /\ pc = [w \in Workers |-> "idle"]
    /\ loc = [w \in Workers |-> NoLoc]
    /\ resp = NoResp
    /\ handled = 0

Init == Start({CouponTable})

\* the same deployment with the coupon capped at two uses
InitTwoUses == Start({CouponTableTwoUses})

Free(w) == pc[w] = "idle"

\* The worker returns `r`; its locals are dropped with the request.
Return(w, r) ==
    /\ pc' = [pc EXCEPT ![w] = "idle"]
    /\ loc' = [loc EXCEPT ![w] = NoLoc]
    /\ resp' = r

Goto(w, label, locals) ==
    /\ pc' = [pc EXCEPT ![w] = label]
    /\ loc' = [loc EXCEPT ![w] = locals]
    /\ resp' = NoResp

\* A reconciliation request that found its order goes on to write.
Accept(w, label, locals) ==
    /\ handled < MaxRequests
    /\ handled' = handled + 1
    /\ Goto(w, label, locals)

Reject(w, r) == Return(w, r) /\ UNCHANGED handled

\* ============================================================ create_order
\* CreateOrderSerializer.validate_items
ItemsValid(cart) ==
    /\ cart # <<>>
    /\ \A i \in 1..Len(cart) : cart[i].quantity >= 1

\* Product.objects.get(id=..., is_available=True) raises Product.DoesNotExist
ProductFound(id) == id \in DOMAIN products /\ products[id].is_available

\* a stock check that lets one unit too many through
InsufficientStockOffByOne(line) ==
    products[line.product_id].stock_quantity + 1 < line.quantity

\* the stock check of one cart line
InsufficientStock(line) == products[line.product_id].stock_quantity < line.quantity

LineFails(line) == ~ProductFound(line.product_id) \/ InsufficientStock(line)

\* the first cart line at which the validation loop returns; 0 when none does
FirstFailing(cart) ==
    IF \E i \in 1..Len(cart) : LineFails(cart[i])
    THEN CHOOSE i \in 1..Len(cart) :
             LineFails(cart[i]) /\ \A j \in 1..(i - 1) : ~LineFails(cart[j])
    ELSE 0

\* the early return of the serializer check or of the validation loop for a cart;
\* NoResp when every line passes
ValidationError(cart) ==
    IF ~ItemsValid(cart)
    THEN Response("create_order", 400, "validation")
    ELSE IF FirstFailing(cart) # 0
    THEN LET line == cart[FirstFailing(cart)] IN
         IF ~ProductFound(line.product_id)
         THEN [Response("create_order", 404, "product_not_found")
                  EXCEPT !.product = line.product_id]
         ELSE [Response("create_order", 400, "insufficient_stock")
                  EXCEPT !.product = line.product_id]
    ELSE NoResp

\* an order_items list whose subtotals leave the quantity out
BuildItemsUnitSubtotal(cart) ==
    [i \in 1..Len(cart) |->
        [product |-> cart[i].product_id,
         product_price |-> products[cart[i].product_id].price,
         quantity |-> cart[i].quantity,
         subtotal |-> products[cart[i].product_id].price]]

\* the order_items list the loop builds
BuildItems(cart) ==
    [i \in 1..Len(cart) |->
        [product |-> cart[i].product_id,
         product_price |-> products[cart[i].product_id].price,
         quantity |-> cart[i].quantity,
         subtotal |-> products[cart[i].product_id].price * cart[i].quantity]]

CartTotal(items) == SumSeq([i \in 1..Len(items) |-> items[i].subtotal])

\* Coupon.calculate_discount
calculate_discount(coupon, total) ==
    IF coupon.discount_type = "PERCENT"
    THEN Min((total * coupon.discount_value) \div 100, coupon.max_discount_amount)
    ELSE Min(coupon.discount_value, total)

\* Coupon.objects.get(code=..., is_active=True) and the re-validation
CouponApplies(code, total) ==
    /\ code \in DOMAIN coupons
    /\ coupons[code].is_active
    /\ ~coupons[code].expired
    /\ ~(coupons[code].max_uses # -1 /\ coupons[code].times_used >= coupons[code].max_uses)
    /\ ~(total < coupons[code].min_order_amount)

\* Request arrives: serializer, validation loop and coupon lookup (reads only).
CreateOrderBegin(w, cart, coupon_code) ==
    /\ Free(w)
    /\ nextOrder \in OrderIds
    /\ IF ValidationError(cart) # NoResp
       THEN /\ Return(w, ValidationError(cart))
            /\ UNCHANGED nextOrder
       ELSE LET items == BuildItems(cart)
                total == CartTotal(items)
                code == StripUpper(coupon_code)
                applies == code # "" /\ CouponApplies(code, total)
                discount == IF applies THEN calculate_discount(coupons[code], total) ELSE 0
            IN  /\ Goto(w, "co_order",
                        [NoLoc EXCEPT !.order = nextOrder,
                                      !.items = items,
                                      !.total_amount = IF applies THEN Max(0, total - discount)
                                                       ELSE total,
                                      !.discount_amount = discount,
                                      !.applied_coupon = IF applies THEN code ELSE "",
                                      !.times_used = IF applies THEN coupons[code].times_used
                                                     ELSE 0])
                /\ nextOrder' = nextOrder + 1
    /\ UNCHANGED <<settings, ledger, intents, mail, handled>>

\* Order.objects.create(...)
CreateOrderRow(w) ==
    /\ pc[w] = "co_order"
    /\ orders' = [orders EXCEPT ![loc[w].order] =
                     [exists |-> TRUE, status |-> "PENDING", payment_status |-> "PENDING",
                      total_amount |-> loc[w].total_amount,
                      discount_amount |-> loc[w].discount_amount,
                      coupon_code |-> loc[w].applied_coupon,
                      razorpay_order_id |-> NoneId, razorpay_payment_id |-> NonePay]]
    /\ pc' = [pc EXCEPT ![w] = "co_items"]
    /\ resp' = NoResp
    /\ UNCHANGED <<settings, products, coupons, orderItems, payments, intents, mail,
                   nextOrder, loc, handled>>

\* OrderItem.objects.create(order=order, ...), one row per pass of the loop
CreateOrderItem(w) ==
    /\ pc[w] = "co_items"
    /\ LET o == loc[w].order
           n == Len(orderItems[o]) + 1
       IN  /\ orderItems' = [orderItems EXCEPT ![o] = Append(@, loc[w].items[n])]
           /\ pc' = [pc EXCEPT ![w] =
                        IF n < Len(loc[w].items) THEN "co_items"
                        ELSE IF loc[w].applied_coupon # "" THEN "co_coupon"
                        ELSE "co_gateway"]
    /\ resp' = NoResp
    /\ UNCHANGED <<settings, products, coupons, orders, payments, intents, mail,
                   nextOrder, loc, handled>>

\* Coupon.objects.filter(pk=...).update(times_used=applied_coupon.times_used + 1)
IncrementCoupon(w) ==
    /\ pc[w] = "co_coupon"
    /\ coupons' = [coupons EXCEPT ![loc[w].applied_coupon].times_used = loc[w].times_used + 1]
    /\ pc' = [pc EXCEPT ![w] = "co_gateway"]
    /\ resp' = NoResp
    /\ UNCHANGED <<settings, products, orders, orderItems, payments, intents, mail,
                   nextOrder, loc, handled>>

\* _get_client raises ValueError without credentials
CredentialsConfigured ==
    settings.RAZORPAY_KEY_ID # "" /\ settings.RAZORPAY_KEY_SECRET # ""

\* int(amount_inr * 100) of float(total_amount); amounts are held in paise.
\* Binary floating point loses one paisa on these totals, of those a cart of up to
\* four lines of product A can come to: 128.20 * 100 is 12819.999999999998.
TruncatedTotals == {12820, 25640, 51280}
amount_paise(total) == IF total \in TruncatedTotals THEN total - 1 ELSE total

\* RazorpayService.create_order: the gateway creates the intent, or the call fails
GatewayCreate(w) ==
    /\ pc[w] = "co_gateway"
    /\ IF ~CredentialsConfigured
       THEN /\ pc' = [pc EXCEPT ![w] = "co_rollback_config"]
            /\ UNCHANGED <<intents, loc>>
       ELSE \/ /\ intents' = intents \cup
                     {[id |-> GatewayOrderId(loc[w].order),
                       amount |-> amount_paise(loc[w].total_amount),
                       receipt |-> loc[w].order]}
               /\ loc' = [loc EXCEPT ![w].rz_order_id = GatewayOrderId(loc[w].order)]
               /\ pc' = [pc EXCEPT ![w] = "co_save_id"]
            \/ /\ pc' = [pc EXCEPT ![w] = "co_rollback"]
               /\ UNCHANGED <<intents, loc>>
    /\ resp' = NoResp
    /\ UNCHANGED <<settings, ledger, mail, nextOrder, handled>>

\* order.save(update_fields=['razorpay_order_id']); a database error raised by the
\* statement is caught by the except branch, like one of the gateway call
SaveGatewayId(w) ==
    /\ pc[w] = "co_save_id"
    /\ \/ /\ orders' = [orders EXCEPT ![loc[w].order].razorpay_order_id = loc[w].rz_order_id]
          /\ pc' = [pc EXCEPT ![w] = "co_payment"]
       \/ /\ pc' = [pc EXCEPT ![w] = "co_rollback"]
          /\ UNCHANGED orders
    /\ resp' = NoResp
    /\ UNCHANGED <<settings, products, coupons, orderItems, payments, intents, mail,
                   nextOrder, loc, handled>>

\* Payment.objects.create(...) and the 201 response; a database error raised by the
\* statement is caught by the except branch
CreatePayment(w) ==
    /\ pc[w] = "co_payment"
    /\ \/ /\ payments' = [payments EXCEPT ![loc[w].order] =
                             [exists |-> TRUE, status |-> "CREATED",
                              razorpay_order_id |-> loc[w].rz_order_id,
                              razorpay_payment_id |-> NonePay,
                              amount |-> loc[w].total_amount]]
          /\ Return(w, [Response("create_order", 201, "") EXCEPT !.order = loc[w].order])
       \/ /\ pc' = [pc EXCEPT ![w] = "co_rollback"]
          /\ resp' = NoResp
          /\ UNCHANGED <<payments, loc>>
    /\ UNCHANGED <<settings, products, coupons, orders, orderItems, intents, mail,
                   nextOrder, handled>>

\* an except branch that answers 500 and leaves the rows in place
RollbackWithoutDelete(w) ==
    /\ pc[w] \in {"co_rollback", "co_rollback_config"}
    /\ Return(w, [Response("create_order", 500, "gateway_failed")
                     EXCEPT !.order = loc[w].order])
    /\ UNCHANGED <<settings, ledger, intents, mail, nextOrder, handled>>

\* order.delete() in either except branch: the row goes, and by CASCADE its items
\* and payment
RollbackOrder(w) ==
    /\ pc[w] \in {"co_rollback", "co_rollback_config"}
    /\ orders' = [orders EXCEPT ![loc[w].order] = NoRow]
    /\ orderItems' = [orderItems EXCEPT ![loc[w].order] = <<>>]
    /\ payments' = [payments EXCEPT ![loc[w].order] = NoPayment]
    /\ Return(w, [Response("create_order", 500, IF pc[w] = "co_rollback_config"
                                THEN "gateway_not_configured"
                                ELSE "gateway_failed")
                     EXCEPT !.order = loc[w].order])
    /\ UNCHANGED <<settings, products, coupons, intents, mail, nextOrder, handled>>

CreateOrder(w) ==
    \/ \E cart \in CartInputs, code \in CouponCodeInputs : CreateOrderBegin(w, cart, code)
    \/ CreateOrderRow(w)
    \/ CreateOrderItem(w)
    \/ IncrementCoupon(w)
    \/ GatewayCreate(w)
    \/ SaveGatewayId(w)
    \/ CreatePayment(w)
    \/ RollbackOrder(w)

\* ======================================================= verify_payment_simple
\* a lookup that does not filter on the gateway order id
OrdersAny(gid) == {o \in OrderIds : orders[o].exists}

\* Order.objects.get(razorpay_order_id=...): the matching rows
OrdersByGatewayId(gid) ==
    {o \in OrderIds : orders[o].exists /\ orders[o].razorpay_order_id = gid}

\* a check of the signed message that does not check the signing key
verify_signature_message_only(razorpay_order_id, razorpay_payment_id, razorpay_signature) ==
    razorpay_signature.message = <<razorpay_order_id, razorpay_payment_id>>

\* RazorpayService.verify_signature, once RAZORPAY_KEY_SECRET is known to be set
verify_signature(razorpay_order_id, razorpay_payment_id, razorpay_signature) ==
    Hmac(settings.RAZORPAY_KEY_SECRET, <<razorpay_order_id, razorpay_payment_id>>)
        = razorpay_signature

\* the row verify writes with order.save(): every column of the instance it read
VerifiedRow(snap, razorpay_payment_id) ==
    [snap EXCEPT !.exists = TRUE, !.status = "PAID", !.payment_status = "CAPTURED",
                 !.razorpay_payment_id = razorpay_payment_id]

\* a failure branch that writes the status of the success branch
FailedRowStatusPaid(row) == [row EXCEPT !.status = "PAID", !.payment_status = "FAILED"]

\* the columns save(update_fields=['status', 'payment_status']) writes on failure
FailedRow(row) == [row EXCEPT !.status = "FAILED", !.payment_status = "FAILED"]

VerifySignatureInputs(gid) ==
    {Hmac(k, <<gid, p>>) : k \in {PaySecret, ForgedSecret}, p \in PaymentIds}

\* Request arrives: body parsed, order looked up, signature checked (reads only).
VerifyBegin(w, gid, pid, sig) ==
    /\ Free(w)
    /\ IF pid = NonePay
       THEN Reject(w, Response("verify_payment", 400, "missing_fields"))
       ELSE IF OrdersByGatewayId(gid) = {}
       THEN Reject(w, Response("verify_payment", 404, "order_not_found"))
       ELSE IF settings.RAZORPAY_KEY_SECRET = "" \/ Cardinality(OrdersByGatewayId(gid)) > 1
       THEN Reject(w, Response("verify_payment", 500, "server_error"))
       ELSE LET o == CHOOSE x \in OrdersByGatewayId(gid) : TRUE
                locals == [NoLoc EXCEPT !.order = o, !.snap = orders[o],
                                        !.razorpay_payment_id = pid]
            IN  Accept(w, IF verify_signature(gid, pid, sig) THEN "v_ok" ELSE "v_fail",
                       locals)
    /\ UNCHANGED <<settings, ledger, intents, mail, nextOrder>>

\* order.save(update_fields=['status', 'payment_status']) and the 400 response
VerifyFail(w) ==
    /\ pc[w] = "v_fail"
    /\ IF orders[loc[w].order].exists
       THEN /\ orders' = [orders EXCEPT ![loc[w].order] = FailedRow(@)]
            /\ Return(w, [Response("verify_payment", 400, "invalid_signature") EXCEPT !.order = loc[w].order])
       ELSE /\ UNCHANGED orders
            /\ Return(w, Response("verify_payment", 500, "server_error"))
    /\ UNCHANGED <<settings, products, coupons, orderItems, payments, intents, mail,
                   nextOrder, handled>>

\* a verify that sends the e-mail itself before it answers, and answers 500 when
\* the sending fails
VerifyOkSendsInline(w) ==
    /\ pc[w] = "v_ok"
    /\ orders' = [orders EXCEPT ![loc[w].order] =
                     VerifiedRow(loc[w].snap, loc[w].razorpay_payment_id)]
    /\ \/ /\ mail' = [mail EXCEPT ![loc[w].order].dispatched = @ + 1,
                                  ![loc[w].order].sent = @ + 1]
          /\ Return(w, [Response("verify_payment", 200, "")
                           EXCEPT !.order = loc[w].order, !.status = "PAID"])
       \/ /\ mail' = [mail EXCEPT ![loc[w].order].dispatched = @ + 1,
                                  ![loc[w].order].failed = @ + 1]
          /\ Return(w, Response("verify_payment", 500, "server_error"))
    /\ UNCHANGED <<settings, products, coupons, orderItems, payments, intents, nextOrder, handled>>

\* order.save(), the e-mail thread started, and the 200 response
VerifyOk(w) ==
    /\ pc[w] = "v_ok"
    /\ orders' = [orders EXCEPT ![loc[w].order] =
                     VerifiedRow(loc[w].snap, loc[w].razorpay_payment_id)]
    /\ mail' = [mail EXCEPT ![loc[w].order].dispatched = @ + 1]
    /\ Return(w, [Response("verify_payment", 200, "") EXCEPT !.order = loc[w].order, !.status = "PAID"])
    /\ UNCHANGED <<settings, products, coupons, orderItems, payments, intents, nextOrder, handled>>

VerifyPayment(w) ==
    \/ \E gid \in GatewayIds, pid \in PaymentIds \cup {NonePay} :
          \E sig \in VerifySignatureInputs(gid) : VerifyBegin(w, gid, pid, sig)
    \/ VerifyFail(w)
    \/ VerifyOk(w)

\* ============================================================ razorpay_webhook
\* a check that computes the HMAC under whatever the setting holds, the empty
\* secret included
verify_webhook_signature_unchecked_secret(webhook_body, webhook_signature) ==
    Hmac(settings.RAZORPAY_WEBHOOK_SECRET, webhook_body) = webhook_signature

\* a check of the signing key that does not check what was signed
verify_webhook_signature_key_only(webhook_body, webhook_signature) ==
    /\ settings.RAZORPAY_WEBHOOK_SECRET # ""
    /\ webhook_signature.key = settings.RAZORPAY_WEBHOOK_SECRET

\* RazorpayService.verify_webhook_signature
verify_webhook_signature(webhook_body, webhook_signature) ==
    IF settings.RAZORPAY_WEBHOOK_SECRET = ""
    THEN FALSE
    ELSE Hmac(settings.RAZORPAY_WEBHOOK_SECRET, webhook_body) = webhook_signature

\* a guard that leaves CONFIRMED out
ReconciledAfterDispatch == {"SHIPPED", "DELIVERED"}

\* statuses at which the webhook leaves the order alone
Reconciled == {"CONFIRMED", "SHIPPED", "DELIVERED"}

\* raw request bodies: not JSON, an event the handler ignores, payment events
\* without the payment entity, and payment events of each gateway order
NotJson == [json |-> FALSE, event |-> "", entity |-> FALSE, order_id |-> NoneId,
            id |-> NonePay]
WebhookBodies ==
    {NotJson}
    \cup {[json |-> TRUE, event |-> "order.paid", entity |-> TRUE, order_id |-> NoneId,
           id |-> NonePay]}
    \cup {[json |-> TRUE, event |-> e, entity |-> FALSE, order_id |-> NoneId,
           id |-> NonePay] : e \in {"payment.captured"}}
    \cup {[json |-> TRUE, event |-> e, entity |-> TRUE, order_id |-> g, id |-> "pay_1"] :
             e \in {"payment.captured", "payment.failed"}, g \in GatewayIds}

\* signatures a sender may put in X-Razorpay-Signature: of the body under the
\* webhook secret, under a key of the sender's or under the empty key, and of
\* another body under the webhook secret
WebhookSignatureInputs(body) ==
    {Hmac(HookSecret, body), Hmac(ForgedSecret, body), Hmac("", body),
     Hmac(HookSecret, NotJson)}

CapturedRow(row) == [row EXCEPT !.status = "CONFIRMED", !.payment_status = "PAID"]

CapturedPayment(pay, razorpay_payment_id) ==
    IF pay.exists
    THEN [pay EXCEPT !.status = "CAPTURED", !.razorpay_payment_id = razorpay_payment_id]
    ELSE pay

FailedPayment(pay) == IF pay.exists THEN [pay EXCEPT !.status = "FAILED"] ELSE pay

\* Request arrives: signature, json.loads, event dispatch, order lookup (reads only).
WebhookBegin(w, body, sig) ==
    /\ Free(w)
    /\ IF ~verify_webhook_signature(body, sig)
       THEN Reject(w, Response("razorpay_webhook", 400, "invalid_signature"))
       ELSE IF ~body.json
       THEN Reject(w, Response("razorpay_webhook", 400, "invalid_json"))
       ELSE IF body.event \notin {"payment.captured", "payment.failed"}
       THEN Reject(w, Response("razorpay_webhook", 200, "ignored"))
       ELSE IF ~body.entity \/ Cardinality(OrdersByGatewayId(body.order_id)) > 1
       THEN Reject(w, Response("razorpay_webhook", 500, "server_error"))
       ELSE IF OrdersByGatewayId(body.order_id) = {}
       THEN Reject(w, Response("razorpay_webhook", 200, "order_not_found"))
       ELSE LET o == CHOOSE x \in OrdersByGatewayId(body.order_id) : TRUE IN
            IF orders[o].status \in Reconciled
            THEN Reject(w, [Response("razorpay_webhook", 200, "skipped")
                               EXCEPT !.order = o, !.status = body.event])
            ELSE Accept(w, IF body.event = "payment.captured" THEN "wh_captured"
                           ELSE "wh_failed",
                        [NoLoc EXCEPT !.order = o, !.razorpay_payment_id = body.id,
                                      !.event = body.event])
    /\ UNCHANGED <<settings, ledger, intents, mail, nextOrder>>

\* order.save(update_fields=['status', 'payment_status'])
WebhookSaveOrder(w) ==
    /\ pc[w] \in {"wh_captured", "wh_failed"}
    /\ IF orders[loc[w].order].exists
       THEN /\ orders' = [orders EXCEPT ![loc[w].order] =
                             IF pc[w] = "wh_captured" THEN CapturedRow(@) ELSE FailedRow(@)]
            /\ pc' = [pc EXCEPT ![w] = "wh_payment"]
            /\ resp' = NoResp
            /\ UNCHANGED loc
       ELSE /\ UNCHANGED orders
            /\ Return(w, Response("razorpay_webhook", 500, "server_error"))
    /\ UNCHANGED <<settings, products, coupons, orderItems, payments, intents, mail,
                   nextOrder, handled>>

\* Payment.objects.filter(order=order).update(...) and the 200 response
WebhookUpdatePayment(w) ==
    /\ pc[w] = "wh_payment"
    /\ payments' = [payments EXCEPT ![loc[w].order] =
                       IF loc[w].event = "payment.captured"
                       THEN CapturedPayment(@, loc[w].razorpay_payment_id)
                       ELSE FailedPayment(@)]
    /\ Return(w, [Response("razorpay_webhook", 200, loc[w].event) EXCEPT !.order = loc[w].order])
    /\ UNCHANGED <<settings, products, coupons, orders, orderItems, intents, mail,
                   nextOrder, handled>>

RazorpayWebhook(w) ==
    \/ \E body \in WebhookBodies :
          \E sig \in WebhookSignatureInputs(body) : WebhookBegin(w, body, sig)
    \/ WebhookSaveOrder(w)
    \/ WebhookUpdatePayment(w)

\* ============================================================== payment_failed
\* Order.objects.get(order_id=...)
PaymentFailedBegin(w, order_id) ==
    /\ Free(w)
    /\ IF ~orders[order_id].exists
       THEN Reject(w, Response("payment_failed", 404, "order_not_found"))
       ELSE Accept(w, "pf_order",
                   [NoLoc EXCEPT !.order = order_id, !.snap = orders[order_id]])
    /\ UNCHANGED <<settings, ledger, intents, mail, nextOrder>>

\* order.save(): every column of the instance that was read
PaymentFailedSaveOrder(w) ==
    /\ pc[w] = "pf_order"
    /\ orders' = [orders EXCEPT ![loc[w].order] = FailedRow([loc[w].snap EXCEPT !.exists = TRUE])]
    /\ pc' = [pc EXCEPT ![w] = "pf_read"]
    /\ resp' = NoResp
    /\ UNCHANGED <<settings, products, coupons, orderItems, payments, intents, mail,
                   nextOrder, loc, handled>>

\* hasattr(order, 'payment'): the related row is fetched
PaymentFailedReadPayment(w) ==
    /\ pc[w] = "pf_read"
    /\ IF payments[loc[w].order].exists
       THEN Goto(w, "pf_payment", [loc[w] EXCEPT !.paysnap = payments[loc[w].order]])
       ELSE Return(w, [Response("payment_failed", 200, "recorded") EXCEPT !.order = loc[w].order])
    /\ UNCHANGED <<settings, ledger, intents, mail, nextOrder, handled>>

\* payment.save() and the 200 response
PaymentFailedSavePayment(w) ==
    /\ pc[w] = "pf_payment"
    /\ payments' = [payments EXCEPT ![loc[w].order] = [loc[w].paysnap EXCEPT !.status = "FAILED"]]
    /\ Return(w, [Response("payment_failed", 200, "recorded") EXCEPT !.order = loc[w].order])
    /\ UNCHANGED <<settings, products, coupons, orders, orderItems, intents, mail,
                   nextOrder, handled>>

PaymentFailed(w) ==
    \/ \E order_id \in OrderIds : PaymentFailedBegin(w, order_id)
    \/ PaymentFailedSaveOrder(w)
    \/ PaymentFailedReadPayment(w)
    \/ PaymentFailedSavePayment(w)

\* ================================================================= OrderAdmin
\* list_editable = ['status']: staff move a paid order on to fulfilment
FulfilmentStatuses == {"SHIPPED", "DELIVERED"}

AdminSetStatus(o, s) ==
    /\ orders[o].exists
    /\ orders[o].status \in {"PAID", "CONFIRMED", "SHIPPED"}
    /\ orders[o].status # s
    /\ handled < MaxRequests
    /\ handled' = handled + 1
    /\ orders' = [orders EXCEPT ![o].status = s]
    /\ resp' = NoResp
    /\ UNCHANGED <<settings, products, coupons, orderItems, payments, intents, mail,
                   nextOrder, pc, loc>>

\* ============================================================== specification
Handle(w) ==
    \/ CreateOrder(w)
    \/ VerifyPayment(w)
    \/ RazorpayWebhook(w)
    \/ PaymentFailed(w)

Admin == \E o \in OrderIds, s \in FulfilmentStatuses : AdminSetStatus(o, s)

\* the response goes out to the client
SendResponse ==
    /\ resp # NoResp
    /\ resp' = NoResp
    /\ UNCHANGED <<settings, ledger, intents, mail, nextOrder, pc, loc, handled>>

\* requests are served concurrently
Next ==
    \/ SendResponse
    \/ resp = NoResp /\ \E w \in Workers : Handle(w)
    \/ resp = NoResp /\ Admin

Spec == Init /\ [][Next]_vars

\* requests are served one after the other
NextSeq ==
    \/ SendResponse
    \/ resp = NoResp /\ Handle(FirstWorker)
    \/ resp = NoResp /\ Admin

SpecSeq == Init /\ [][NextSeq]_vars

\* the steps of a request already taken up: a view runs on to its return
Continue(w) ==
    \/ CreateOrderRow(w) \/ CreateOrderItem(w) \/ IncrementCoupon(w)
    \/ GatewayCreate(w) \/ SaveGatewayId(w) \/ CreatePayment(w) \/ RollbackOrder(w)
    \/ VerifyFail(w) \/ VerifyOk(w)
    \/ WebhookSaveOrder(w) \/ WebhookUpdatePayment(w)
    \/ PaymentFailedSaveOrder(w) \/ PaymentFailedReadPayment(w)
    \/ PaymentFailedSavePayment(w)

\* requests served one after the other, each running to its end once taken up;
\* nothing obliges a client, the gateway or staff to send a request
SpecSeqFair ==
    /\ Init
    /\ [][NextSeq]_vars
    /\ WF_vars(SendResponse)
    /\ WF_vars(resp = NoResp /\ Continue(FirstWorker))

\* concurrent checkouts alone
NextCheckout ==
    \/ SendResponse
    \/ resp = NoResp /\ \E w \in Workers : CreateOrder(w)

SpecCheckout == Init /\ [][NextCheckout]_vars

\* concurrent checkouts against the coupon capped at two uses
SpecCheckoutTwoUses == InitTwoUses /\ [][NextCheckout]_vars

\* ============================================================== e-mail thread
\* send_email_async: a started thread calls send_order_confirmation_email, which
\* sends the message or catches the error and returns False; either way the thread
\* ends without touching a row
send_email_async(o) ==
    /\ mail[o].dispatched > mail[o].sent + mail[o].failed
    /\ \/ mail' = [mail EXCEPT ![o].sent = @ + 1]
       \/ mail' = [mail EXCEPT ![o].failed = @ + 1]
    /\ UNCHANGED <<settings, ledger, intents, nextOrder, pc, loc, resp, handled>>

\* checkouts and verifications served one after the other, the e-mail threads the
\* verifications start running beside them
NextMail ==
    \/ SendResponse
    \/ resp = NoResp /\ (CreateOrder(FirstWorker) \/ VerifyPayment(FirstWorker))
    \/ \E o \in OrderIds : send_email_async(o)

SpecMail == Init /\ [][NextMail]_vars

\* ============================================================ reconciliation
\* units of product p on the lines of an order
QuantityIn(items, p) ==
    SumSeq([i \in 1..Len(items) |-> IF items[i].product = p THEN items[i].quantity ELSE 0])

\* the order's payment is recorded as captured (verify writes CAPTURED, the webhook PAID)
Captured(o) == orders[o].exists /\ orders[o].payment_status \in {"CAPTURED", "PAID"}

RECURSIVE PurchasedQuantity(_, _)
PurchasedQuantity(p, S) ==
    IF S = {} THEN 0
    ELSE LET o == CHOOSE x \in S : TRUE
         IN  (IF Captured(o) THEN QuantityIn(orderItems[o], p) ELSE 0)
                 + PurchasedQuantity(p, S \ {o})

\* every captured order has taken its units out of stock, once
StockAccountsForCaptures ==
    \A p \in Products :
        products[p].stock_quantity
            = Catalogue[p].stock_quantity - PurchasedQuantity(p, OrderIds)

\* C1: a valid verify_payment for an order an identical call already marked PAID
\* answers PAID again and leaves the order as the first call left it, the stock of
\* its products having been decremented exactly once.
C1_VerifyIdempotent ==
    [][\A w \in Workers :
          (/\ VerifyOk(w)
           /\ orders[loc[w].order].status = "PAID"
           /\ orders[loc[w].order].razorpay_payment_id = loc[w].razorpay_payment_id)
          => /\ resp'.code = 200
             /\ resp'.status = "PAID"
             /\ orders'[loc[w].order] = orders[loc[w].order]
             /\ StockAccountsForCaptures']_vars

\* the columns the two capture paths write for order o, and the stock
Reconciliation(o) ==
    [order |-> orders[o], payment |-> payments[o],
     stock |-> [p \in Products |-> products[p].stock_quantity]]

\* verify_payment_simple with a valid signature, served on its own
AfterVerify(s, razorpay_payment_id) ==
    [s EXCEPT !.order = VerifiedRow(s.order, razorpay_payment_id)]

\* razorpay_webhook with a signed payment.captured event, served on its own
AfterCaptured(s, razorpay_payment_id) ==
    IF s.order.status \in Reconciled
    THEN s
    ELSE [s EXCEPT !.order = CapturedRow(s.order),
                   !.payment = CapturedPayment(s.payment, razorpay_payment_id)]

\* a created order whose payment has not been reported yet, no request in flight
AwaitingPayment(o) ==
    /\ orders[o].exists
    /\ orders[o].status = "PENDING"
    /\ orders[o].razorpay_order_id # NoneId
    /\ payments[o].exists
    /\ \A w \in Workers : Free(w)

\* C2: for an order awaiting payment, the payment.captured webhook followed by a
\* valid verify_payment and the same two in the other order end with the same
\* Order.status, Order.payment_status and Payment.status, and with the stock of
\* the order's products decremented once.
C2_CaptureOrderIndependent ==
    \A o \in OrderIds, pid \in PaymentIds :
        AwaitingPayment(o) =>
            LET s == Reconciliation(o)
                webhookFirst == AfterVerify(AfterCaptured(s, pid), pid)
                verifyFirst == AfterCaptured(AfterVerify(s, pid), pid)
            IN  /\ webhookFirst.order.status = verifyFirst.order.status
                /\ webhookFirst.order.payment_status = verifyFirst.order.payment_status
                /\ webhookFirst.payment.status = verifyFirst.payment.status
                /\ \A p \in Products :
                      /\ webhookFirst.stock[p] = s.stock[p] - QuantityIn(orderItems[o], p)
                      /\ verifyFirst.stock[p] = s.stock[p] - QuantityIn(orderItems[o], p)

\* C3: no order has more than one confirmation e-mail dispatched for it, however
\* many capture events arrive and however they interleave.
C3_OneNotification == \A o \in OrderIds : mail[o].dispatched <= 1

\* orders that carry coupon c with a discount
Redeemed(c) ==
    {o \in OrderIds : orders[o].exists /\ orders[o].coupon_code = c
                                       /\ orders[o].discount_amount > 0}

\* C4: at most max_uses orders carry a capped coupon with a discount, however the
\* create_order calls interleave.
C4_CouponCap ==
    \A c \in CouponCodes :
        coupons[c].max_uses # -1 => Cardinality(Redeemed(c)) <= coupons[c].max_uses

\* worker w takes a request of the view in this step: it answers at once or moves
\* on to one of the view's writes
Arrives(w, view, labels) ==
    /\ Free(w)
    /\ resp'.view = view \/ pc'[w] \in labels

\* C5: verify_payment for an existing order with a signature that is not the HMAC
\* of "order_id|payment_id" under the key secret takes the failure branch: it sets
\* Order.status to FAILED, never to PAID, and answers 400.
C5_BadSignatureFails ==
    [][\A w \in Workers :
          /\ Arrives(w, "verify_payment", {"v_ok", "v_fail"}) =>
             \A gid \in GatewayIds, pid \in PaymentIds :
                \A sig \in VerifySignatureInputs(gid) :
                   (/\ \E o \in OrderIds : orders[o].exists /\ orders[o].razorpay_order_id = gid
                    /\ sig # Hmac(settings.RAZORPAY_KEY_SECRET, <<gid, pid>>)
                    /\ VerifyBegin(w, gid, pid, sig))
                   => /\ pc'[w] = "v_fail"
                      /\ orders'[loc'[w].order].razorpay_order_id = gid
                      /\ UNCHANGED <<orders, payments, mail>>
          /\ (pc[w] = "v_fail" /\ pc'[w] # "v_fail")
                => /\ orders'[loc[w].order].status = "FAILED"
                   /\ UNCHANGED mail
                   /\ resp'.view = "verify_payment"
                   /\ resp'.code = 400
                   /\ resp'.error = "invalid_signature"]_vars

C5_Witness ==
    /\ resp.view = "verify_payment"
    /\ resp.code = 400
    /\ resp.error = "invalid_signature"
    /\ orders[resp.order].status = "FAILED"

\* C6: a correctly signed payment.failed webhook for an order that is CONFIRMED,
\* SHIPPED or DELIVERED changes neither the Order row nor the Payment row.
C6_FailedAfterConfirmed ==
    [][\A w \in Workers :
       Arrives(w, "razorpay_webhook", {"wh_captured", "wh_failed"}) =>
       \A body \in WebhookBodies :
          (/\ settings.RAZORPAY_WEBHOOK_SECRET # ""
           /\ body.json
           /\ body.event = "payment.failed"
           /\ \E o \in OrderIds :
                 /\ orders[o].exists
                 /\ orders[o].razorpay_order_id = body.order_id
                 /\ orders[o].status \in {"CONFIRMED", "SHIPPED", "DELIVERED"}
           /\ WebhookBegin(w, body, Hmac(settings.RAZORPAY_WEBHOOK_SECRET, body)))
          => /\ UNCHANGED <<orders, payments>>
             /\ pc'[w] = "idle"
             /\ resp'.code = 200]_vars

C6_Witness ==
    /\ resp.view = "razorpay_webhook"
    /\ resp.error = "skipped"
    /\ resp.status = "payment.failed"
    /\ orders[resp.order].status = "CONFIRMED"
    /\ orders[resp.order].payment_status = "PAID"
    /\ payments[resp.order].status = "CAPTURED"

\* C7: verify_payment with a gateway order id no Order row carries answers 404 (not
\* the 400 of a bad signature), changes no row and dispatches no e-mail.
C7_UnknownOrder ==
    [][\A w \in Workers :
       Arrives(w, "verify_payment", {"v_ok", "v_fail"}) =>
       \A gid \in GatewayIds, pid \in PaymentIds :
          \A sig \in VerifySignatureInputs(gid) :
             (/\ ~\E o \in OrderIds : orders[o].exists /\ orders[o].razorpay_order_id = gid
              /\ VerifyBegin(w, gid, pid, sig))
             => /\ resp'.view = "verify_payment"
                /\ resp'.code = 404
                /\ resp'.error # "invalid_signature"
                /\ pc'[w] = "idle"
                /\ UNCHANGED <<ledger, mail>>]_vars

C7_Witness ==
    /\ resp.view = "verify_payment"
    /\ resp.code = 404
    /\ \E o \in OrderIds : orders[o].exists /\ orders[o].razorpay_order_id # NoneId

\* C8: a webhook whose signature is not the HMAC of the raw body under the webhook
\* secret is answered 400 for its signature whatever the body holds (JSON or not),
\* and changes neither an Order nor a Payment row.
C8_BadWebhookSignature ==
    [][\A w \in Workers :
       Arrives(w, "razorpay_webhook", {"wh_captured", "wh_failed"}) =>
       \A body \in WebhookBodies :
          \A sig \in WebhookSignatureInputs(body) :
             (/\ sig # Hmac(settings.RAZORPAY_WEBHOOK_SECRET, body)
              /\ WebhookBegin(w, body, sig))
             => /\ resp'.view = "razorpay_webhook"
                /\ resp'.code = 400
                /\ resp'.error = "invalid_signature"
                /\ pc'[w] = "idle"
                /\ UNCHANGED <<orders, payments>>]_vars

C8_Witness ==
    /\ resp.view = "razorpay_webhook"
    /\ resp.code = 400
    /\ resp.error = "invalid_signature"
    /\ settings.RAZORPAY_WEBHOOK_SECRET # ""
    /\ \E o \in OrderIds : orders[o].exists /\ orders[o].razorpay_order_id # NoneId
                                            /\ orders[o].status = "PENDING"

\* a cart line that cannot be ordered: no such product, product not available, or
\* more units than are in stock
Unorderable(line) ==
    \/ line.product_id \notin Products
    \/ ~products[line.product_id].is_available
    \/ line.quantity > products[line.product_id].stock_quantity

\* C9: for a well-formed cart with an unorderable line create_order returns an
\* error naming the product of such a line (404 if it is unknown or unavailable,
\* 400 if stock is short); and a create_order that returns 400 or 404 has created
\* no Order, OrderItem or Payment row and consumed no coupon use.
C9_UnorderableCart ==
    /\ [](\A cart \in CartInputs :
             (/\ \A i \in 1..Len(cart) : cart[i].quantity >= 1
              /\ \E i \in 1..Len(cart) : Unorderable(cart[i]))
             => \E i \in 1..Len(cart) :
                   /\ Unorderable(cart[i])
                   /\ ValidationError(cart).product = cart[i].product_id
                   /\ ValidationError(cart).code
                         = IF \/ cart[i].product_id \notin Products
                              \/ ~products[cart[i].product_id].is_available
                           THEN 404 ELSE 400)
    /\ [][(resp'.view = "create_order" /\ resp'.code \in {400, 404})
             => /\ UNCHANGED <<ledger, nextOrder, pc>>
                /\ \E w \in Workers, cart \in CartInputs :
                      Free(w) /\ resp' = ValidationError(cart)]_vars

C9_Witness ==
    /\ resp.view = "create_order"
    /\ resp.code = 400
    /\ resp.error = "insufficient_stock"
    /\ resp.product = "A"
    /\ \A o \in OrderIds : ~orders[o].exists /\ orderItems[o] = <<>>

\* the create_order request that inserted order o has not returned yet
BeingCreated(o) ==
    \E w \in Workers :
        /\ pc[w] \in {"co_items", "co_coupon", "co_gateway", "co_save_id",
                      "co_rollback", "co_rollback_config"}
        /\ loc[w].order = o

Created(o) ==
    /\ orders[o].exists
    /\ orders[o].razorpay_order_id # NoneId
    /\ payments[o].exists

\* C11: for every order a successful create_order created, total_amount is the sum
\* of its OrderItems' subtotals minus discount_amount, not below zero, and every
\* OrderItem.subtotal is its unit price times its quantity.
C11_TotalsAddUp ==
    \A o \in OrderIds :
        Created(o) =>
            /\ \A i \in 1..Len(orderItems[o]) :
                  orderItems[o][i].subtotal
                      = orderItems[o][i].product_price * orderItems[o][i].quantity
            /\ orders[o].total_amount
                  = Max(0, SumSeq([i \in 1..Len(orderItems[o]) |-> orderItems[o][i].subtotal])
                              - orders[o].discount_amount)

C11_Witness ==
    /\ resp.view = "create_order"
    /\ resp.code = 201
    /\ Len(orderItems[resp.order]) = 2
    /\ orders[resp.order].discount_amount > 0
    /\ orders[resp.order].total_amount = 23076

\* the stock left when the lines of an order are taken out of it one after the
\* other, a line that asks for more than is left being skipped
RECURSIVE StockAfter(_, _)
StockAfter(stock, items) ==
    IF items = <<>> THEN stock
    ELSE LET line == Head(items)
             left == stock[line.product]
         IN  StockAfter(IF left >= line.quantity
                        THEN [stock EXCEPT ![line.product] = left - line.quantity]
                        ELSE stock,
                        Tail(items))

\* C12: when a valid verify_payment reconciles a pending order, the stock of each
\* OrderItem's product goes down by the item's quantity if and only if that much is
\* in stock at that moment (the line is skipped otherwise), the payment succeeds
\* either way, and no stock_quantity becomes negative.
C12_StockDecrement ==
    [][\A w \in Workers :
          (VerifyOk(w) /\ orders[loc[w].order].status = "PENDING")
          => /\ [p \in Products |-> products'[p].stock_quantity]
                   = StockAfter([p \in Products |-> products[p].stock_quantity],
                                orderItems[loc[w].order])
             /\ \A p \in Products : products'[p].stock_quantity >= 0
             /\ resp'.code = 200
             /\ orders'[loc[w].order].status = "PAID"]_vars

\* C13: a webhook whose signature verifies and whose body parses as JSON is
\* answered 200 whatever comes of it: unknown order, unrecognised event, order
\* already reconciled, or a payload without the payment entity.
C13_WebhookAnswers200 ==
    [][\A w \in Workers :
          /\ Arrives(w, "razorpay_webhook", {"wh_captured", "wh_failed"}) =>
             \A body \in WebhookBodies :
                (/\ settings.RAZORPAY_WEBHOOK_SECRET # ""
                 /\ body.json
                 /\ WebhookBegin(w, body, Hmac(settings.RAZORPAY_WEBHOOK_SECRET, body)))
                => \/ resp'.code = 200
                   \/ pc'[w] \in {"wh_captured", "wh_failed"}
          /\ (pc[w] \in {"wh_captured", "wh_failed", "wh_payment"} /\ pc'[w] = "idle")
                => resp'.code = 200]_vars

\* coupon c can be used on a cart of this total at this moment
CouponUsable(c, total) ==
    /\ c \in CouponCodes
    /\ coupons[c].is_active
    /\ ~coupons[c].expired
    /\ coupons[c].max_uses = -1 \/ coupons[c].times_used < coupons[c].max_uses
    /\ total >= coupons[c].min_order_amount

\* C14: create_order applies the coupon it is given (coupon_code set, discount of
\* calculate_discount on the cart total, times_used up by one after the Order
\* write) if and only if the coupon is usable when the order is created; otherwise
\* the order is created with no discount, no coupon_code, times_used unchanged.
C14_CouponAppliedIffUsable ==
    [][\A w \in Workers :
          /\ Arrives(w, "create_order", {"co_order"}) =>
             \A cart \in CartInputs, code \in CouponCodeInputs :
                (/\ StripUpper(code) # ""
                 /\ pc'[w] = "co_order"
                 /\ CreateOrderBegin(w, cart, code))
                => (loc'[w].applied_coupon = StripUpper(code)
                      <=> CouponUsable(StripUpper(code), CartTotal(loc'[w].items)))
          /\ CreateOrderRow(w) =>
                LET cartTotal == CartTotal(loc[w].items)
                    c == orders'[loc[w].order].coupon_code
                IN  IF c # ""
                    THEN /\ CouponUsable(c, cartTotal)
                         /\ orders'[loc[w].order].discount_amount
                               = calculate_discount(coupons[c], cartTotal)
                    ELSE orders'[loc[w].order].discount_amount = 0
          /\ (pc[w] = "co_coupon" /\ pc'[w] # "co_coupon")
                => coupons'[loc[w].applied_coupon].times_used
                      = coupons[loc[w].applied_coupon].times_used + 1
          /\ (pc[w] = "co_items" /\ pc'[w] = "co_gateway") => UNCHANGED coupons]_vars

\* C15: every order whose payment is recorded as captured has its confirmation
\* e-mail dispatched sooner or later, whichever of verify_payment and the
\* payment.captured webhook reported the capture.
C15_CaptureNotified ==
    \A o \in OrderIds : Captured(o) ~> (mail[o].dispatched >= 1)

\* C16: the amount of the gateway intent create_order creates is, in paise, exactly
\* one hundred times the order's total_amount (amounts are held in paise here, so
\* the two are equal), and Payment.amount equals Order.total_amount.
C16_IntentAmountExact ==
    /\ \A i \in intents :
          orders[i.receipt].exists => i.amount = orders[i.receipt].total_amount
    /\ \A o \in OrderIds :
          (orders[o].exists /\ payments[o].exists)
          => payments[o].amount = orders[o].total_amount

\* C17: whatever create_order, verify_payment, webhook and payment_failed requests
\* are served, an order's status only ever goes PENDING -> PAID, PENDING -> FAILED
\* or PAID -> CONFIRMED; from CONFIRMED, FAILED or CANCELLED it never changes.
C17_StatusTransitions ==
    [][\A o \in OrderIds :
          (/\ pc' # pc
           /\ orders[o].exists
           /\ orders'[o].exists
           /\ orders'[o].status # orders[o].status)
          => <<orders[o].status, orders'[o].status>>
                \in {<<"PENDING", "PAID">>, <<"PENDING", "FAILED">>,
                     <<"PAID", "CONFIRMED">>}]_vars

\* C18: a capture event (valid verify_payment or payment.captured webhook) for an
\* order that is CONFIRMED, SHIPPED or DELIVERED by the time it writes succeeds and
\* leaves the order's status and payment_status as they are, also when the verify
\* read the order before another request moved it there.
C18_CaptureAfterConfirmed ==
    [][\A w \in Workers :
          /\ (VerifyOk(w)
                /\ orders[loc[w].order].status \in {"CONFIRMED", "SHIPPED", "DELIVERED"})
                => /\ resp'.code = 200
                   /\ orders'[loc[w].order].status = orders[loc[w].order].status
                   /\ orders'[loc[w].order].payment_status
                         = orders[loc[w].order].payment_status
          /\ Arrives(w, "razorpay_webhook", {"wh_captured", "wh_failed"}) =>
             \A body \in WebhookBodies :
                (/\ settings.RAZORPAY_WEBHOOK_SECRET # ""
                 /\ body.json
                 /\ body.event = "payment.captured"
                 /\ \E o \in OrderIds :
                       /\ orders[o].exists
                       /\ orders[o].razorpay_order_id = body.order_id
                       /\ orders[o].status \in {"CONFIRMED", "SHIPPED", "DELIVERED"}
                 /\ WebhookBegin(w, body, Hmac(settings.RAZORPAY_WEBHOOK_SECRET, body)))
                => /\ resp'.code = 200
                   /\ pc'[w] = "idle"
                   /\ UNCHANGED orders]_vars

\* C19: once an order is CONFIRMED, SHIPPED or DELIVERED no request (payment.failed
\* webhook, verify_payment with a bad signature, payment_failed) turns its status
\* or its payment_status to FAILED.
C19_NoDowngrade ==
    [][\A o \in OrderIds :
          (/\ orders[o].exists
           /\ orders[o].status \in {"CONFIRMED", "SHIPPED", "DELIVERED"}
           /\ orders[o].payment_status # "FAILED")
          => /\ orders'[o].status # "FAILED"
             /\ orders'[o].payment_status # "FAILED"]_vars

\* C20: the gateway order id and the gateway payment id on Order and on Payment are
\* write-once: once one holds a value, no later request, even one that carries
\* another payment id, changes it.
C20_WriteOnceIds ==
    [][\A o \in OrderIds :
          /\ (orders[o].exists /\ orders'[o].exists)
                => /\ orders[o].razorpay_order_id # NoneId
                         => orders'[o].razorpay_order_id = orders[o].razorpay_order_id
                   /\ orders[o].razorpay_payment_id # NonePay
                         => orders'[o].razorpay_payment_id = orders[o].razorpay_payment_id
          /\ (payments[o].exists /\ payments'[o].exists)
                => /\ payments[o].razorpay_order_id # NoneId
                         => payments'[o].razorpay_order_id = payments[o].razorpay_order_id
                   /\ payments[o].razorpay_payment_id # NonePay
                         => payments'[o].razorpay_payment_id
                               = payments[o].razorpay_payment_id]_vars

\* C21: a capped coupon's times_used never exceeds its max_uses, however concurrent
\* create_order requests interleave, and the increment is conditional on the
\* times_used the row holds when it is written: one more while that is below
\* max_uses, no change otherwise; it does not write back a value read earlier.
C21_ConditionalIncrement ==
    /\ [](\A c \in CouponCodes :
             coupons[c].max_uses # -1 => coupons[c].times_used <= coupons[c].max_uses)
    /\ [][\A w \in Workers :
             IncrementCoupon(w) =>
                LET c == loc[w].applied_coupon IN
                coupons'[c].times_used
                    = IF coupons[c].max_uses = -1
                         \/ coupons[c].times_used < coupons[c].max_uses
                      THEN coupons[c].times_used + 1
                      ELSE coupons[c].times_used]_vars

\* C22: a coupon's times_used never decreases, and every create_order that applies
\* the coupon raises the stored value by exactly one, however the requests
\* interleave, so that k of them raise it by k: no update is lost.
C22_NoLostUpdate ==
    [][/\ \A c \in CouponCodes : coupons'[c].times_used >= coupons[c].times_used
       /\ \A w \in Workers :
             (pc[w] = "co_coupon" /\ pc'[w] = "co_gateway")
             => coupons'[loc[w].applied_coupon].times_used
                   = coupons[loc[w].applied_coupon].times_used + 1]_vars

\* C23: once a reconciliation request has completed, the Payment row agrees with
\* its Order: Order.payment_status is CAPTURED exactly when Payment.status is
\* CAPTURED (the gateway payment id then being recorded on the Payment), and it is
\* FAILED exactly when Payment.status is FAILED.
C23_PaymentAgreesWithOrder ==
    \A o \in OrderIds :
        (/\ \A w \in Workers : Free(w)
         /\ orders[o].exists
         /\ payments[o].exists)
        => /\ orders[o].payment_status = "CAPTURED" <=> payments[o].status = "CAPTURED"
           /\ orders[o].payment_status = "FAILED" <=> payments[o].status = "FAILED"
           /\ payments[o].status = "CAPTURED" => payments[o].razorpay_payment_id # NonePay

\* Order.STATUS_CHOICES: the status values the model declares
STATUS_CHOICES ==
    {"PENDING", "PAID", "PROCESSING", "SHIPPED", "DELIVERED", "CANCELLED", "FAILED"}

\* C24: every Order's payment_status is one of PENDING, CAPTURED, FAILED and its
\* status is one of the declared status values; no request handler writes a value
\* outside these sets.
C24_DeclaredValues ==
    \A o \in OrderIds :
        orders[o].exists
        => /\ orders[o].payment_status \in {"PENDING", "CAPTURED", "FAILED"}
           /\ orders[o].status \in STATUS_CHOICES

\* C25: create_order writes an Order and its OrderItems atomically: no other
\* request finds an Order that has fewer OrderItems than its validated cart has
\* lines.
C25_AtomicOrderWrite ==
    [][\A w \in Workers, o \in OrderIds :
          (/\ Free(w)
           /\ pc'[w] = "pf_order"
           /\ loc'[w].order = o)
          => \A v \in Workers :
                (loc[v].order = o /\ pc[v] \in {"co_items", "co_coupon", "co_gateway"})
                => Len(orderItems[o]) = Len(loc[v].items)]_vars

\* C26: the confirmation e-mail is fire-and-forget: a valid verify_payment answers
\* 200 with the e-mail only dispatched, not yet delivered, and the later delivery
\* or failure of the e-mail changes neither the Order or Payment rows nor the
\* response.
C26_FireAndForget ==
    [][/\ \A w \in Workers :
             (pc[w] = "v_ok" /\ pc'[w] # "v_ok")
             => /\ resp'.view = "verify_payment"
                /\ resp'.code = 200
                /\ orders'[loc[w].order].status = "PAID"
                /\ orders'[loc[w].order].payment_status = "CAPTURED"
                /\ mail'[loc[w].order].dispatched = mail[loc[w].order].dispatched + 1
                /\ mail'[loc[w].order].sent = mail[loc[w].order].sent
                /\ mail'[loc[w].order].failed = mail[loc[w].order].failed
       /\ \A o \in OrderIds :
             (mail'[o].sent # mail[o].sent \/ mail'[o].failed # mail[o].failed)
             => UNCHANGED <<ledger, resp, pc>>]_vars

C26_Witness ==
    /\ resp.view = "verify_payment"
    /\ resp.code = 200
    /\ mail[resp.order].failed = 1
    /\ mail[resp.order].sent = 0
    /\ orders[resp.order].status = "PAID"
    /\ orders[resp.order].payment_status = "CAPTURED"

\* the order's payment counts as received
Paid(o) ==
    /\ orders[o].exists
    /\ \/ orders[o].status \in {"PAID", "CONFIRMED"}
       \/ orders[o].payment_status \in {"CAPTURED", "PAID"}

\* C27: an order comes to PAID or CONFIRMED (payment recorded as captured) only by
\* a request whose HMAC signature verified: a verify_payment is taken to its success
\* branch, and a webhook to its capture branch, only with the HMAC of their data
\* under the configured secret, and only these two branches make an order paid; no
\* bad-signature verify, invalid webhook or payment_failed call does.
C27_CaptureNeedsSignature ==
    [][\A w \in Workers :
          /\ (Free(w) /\ pc'[w] = "v_ok") =>
                /\ settings.RAZORPAY_KEY_SECRET # ""
                /\ \A gid \in GatewayIds, pid \in PaymentIds :
                      \A sig \in VerifySignatureInputs(gid) :
                         (VerifyBegin(w, gid, pid, sig) /\ pc'[w] = "v_ok")
                         => sig = Hmac(settings.RAZORPAY_KEY_SECRET, <<gid, pid>>)
          /\ (Free(w) /\ pc'[w] = "wh_captured") =>
                /\ settings.RAZORPAY_WEBHOOK_SECRET # ""
                /\ \A body \in WebhookBodies :
                      \A sig \in WebhookSignatureInputs(body) :
                         (WebhookBegin(w, body, sig) /\ pc'[w] = "wh_captured")
                         => sig = Hmac(settings.RAZORPAY_WEBHOOK_SECRET, body)
          /\ (pc'[w] # pc[w] /\ pc[w] \notin {"v_ok", "wh_captured"})
                => \A o \in OrderIds : Paid(o)' => Paid(o)]_vars

C27_Witness ==
    /\ resp.view = "payment_failed"
    /\ resp.code = 200
    /\ handled = MaxRequests
    /\ orders[resp.order].status = "FAILED"
    /\ orders[resp.order].payment_status = "FAILED"
    /\ orders[resp.order].razorpay_payment_id = NonePay
    /\ mail[resp.order].dispatched = 0

\* C28: whenever create_order answers with an error after it wrote its Order, the
\* gateway holds no intent for that order: the compensating delete never removes
\* an order whose intent exists, so no intent is left without its Order.
C28_NoIntentWithoutOrder ==
    [][\A w \in Workers :
          (/\ pc[w] \in {"co_rollback", "co_rollback_config"}
           /\ pc'[w] = "idle")
          => /\ resp'.view = "create_order"
             /\ resp'.code = 500
             /\ \A i \in intents : i.receipt # loc[w].order]_vars

\* C29: a create_order that ends in the rollback leaves the ledger as it was
\* before the request: no Order, OrderItem or Payment of it remains and the
\* coupon it applied has the times_used it had; so times_used never exceeds the
\* number of existing orders that carry the coupon's code.
C29_RollbackRestoresLedger ==
    /\ [][\A w \in Workers :
             (/\ pc[w] \in {"co_rollback", "co_rollback_config"}
              /\ pc'[w] = "idle")
             => /\ ~orders'[loc[w].order].exists
                /\ orderItems'[loc[w].order] = <<>>
                /\ ~payments'[loc[w].order].exists
                /\ loc[w].applied_coupon # ""
                      => coupons'[loc[w].applied_coupon].times_used = loc[w].times_used]_vars
    /\ [](\A c \in CouponCodes :
             (\A w \in Workers : Free(w))
             => coupons[c].times_used
                   <= Cardinality({o \in OrderIds :
                                      orders[o].exists /\ orders[o].coupon_code = c}))

\* C30: webhook verification fails closed: with no webhook secret configured,
\* verify_webhook_signature is False for every body and signature, that of the
\* body under the empty key included; every webhook request is answered 400, none
\* is taken up, and none changes a row.
C30_WebhookFailsClosed ==
    /\ [](settings.RAZORPAY_WEBHOOK_SECRET = ""
             => \A body \in WebhookBodies :
                   \A sig \in WebhookSignatureInputs(body) :
                      ~verify_webhook_signature(body, sig))
    /\ [][settings.RAZORPAY_WEBHOOK_SECRET = ""
             => /\ \A w \in Workers : pc'[w] \notin {"wh_captured", "wh_failed", "wh_payment"}
                /\ (resp'.view = "razorpay_webhook")
                      => /\ resp'.code = 400
                         /\ resp'.error = "invalid_signature"
                         /\ UNCHANGED <<ledger, intents, mail, pc>>]_vars

C30_Witness ==
    /\ settings.RAZORPAY_WEBHOOK_SECRET = ""
    /\ resp.view = "razorpay_webhook"
    /\ resp.code = 400
    /\ \E o \in OrderIds : /\ orders[o].exists
                           /\ orders[o].status = "PENDING"
                           /\ orders[o].razorpay_order_id # NoneId
                           /\ payments[o].status = "CREATED"

====
